---------------------------- MODULE Spec2Model ----------------------------
(***************************************************************************)
(* A model of ream.js (src/src/lib/ream.ts): the epoch <-> civil           *)
(* conversion built on the host Date object, the calendar arithmetic, the  *)
(* day-of-week helpers, the ZDT functor and the recurrence generators;     *)
(* and of its host-backed variant (src/unnamed/part_001): zone resolution  *)
(* through Intl and Date, the recursive generators and the ReamDate zone   *)
(* methods.                                                                *)
(*                                                                         *)
(* Number encoding.  A JavaScript number that holds a millisecond count    *)
(* (an epochMs, a Duration's ms) is written as the pair <<day, ms>> with   *)
(* value day * 86400000 + ms and 0 <= ms < 86400000, which are exactly     *)
(* ECMAScript's Day(t) and TimeWithinDay(t); the pair is unique for every  *)
(* integer, so equality of pairs is equality of numbers.  NaN in such a    *)
(* position is the empty tuple NaNMs; NaN in a calendar field (y, m, d,    *)
(* h, ...) is the integer NaN, which no computation of the model yields.   *)
(***************************************************************************)
EXTENDS Integers, Sequences, FiniteSets, TLC

(* ------------------------------------------------------------------ *)
(*  Millisecond numbers                                                *)
(* ------------------------------------------------------------------ *)
msPerDay == 86400000

NaN == -999999999

NaNMs == <<>>

IsNaNMs(t) == t = NaNMs

Norm(day, ms) == <<day + (ms \div msPerDay), ms % msPerDay>>

NOfInt(n) == Norm(0, n)

NAdd(a, b) == IF IsNaNMs(a) \/ IsNaNMs(b) THEN NaNMs ELSE Norm(a[1] + b[1], a[2] + b[2])

NNeg(a) == IF IsNaNMs(a) THEN NaNMs ELSE Norm(-a[1], -a[2])

NSub(a, b) == NAdd(a, NNeg(b))

RECURSIVE NTimes(_, _)
NTimes(n, a) ==
  IF IsNaNMs(a) \/ n = NaN THEN NaNMs
  ELSE IF n = 0 THEN <<0, 0>>
  ELSE IF n < 0 THEN NNeg(NTimes(-n, a))
  ELSE LET h == NTimes(n \div 2, a)
       IN  IF n % 2 = 0 THEN NAdd(h, h) ELSE NAdd(NAdd(h, h), a)

NLess(a, b) == a[1] < b[1] \/ (a[1] = b[1] /\ a[2] < b[2])

(* JavaScript's % : the remainder takes the sign of the dividend. *)
JsRem(a, b) == IF a >= 0 THEN a % b ELSE -((-a) % b)

Min(a, b) == IF a = NaN \/ b = NaN THEN NaN ELSE IF a <= b THEN a ELSE b

(* ------------------------------------------------------------------ *)
(*  The host Date object (ECMA-262, Date objects)                      *)
(* ------------------------------------------------------------------ *)
MaxTimeDays == 100000000

TimeClip(t) ==
  IF IsNaNMs(t) THEN NaNMs
  ELSE IF t[1] > MaxTimeDays \/ (t[1] = MaxTimeDays /\ t[2] > 0) \/ t[1] < -MaxTimeDays
       THEN NaNMs
       ELSE t

DayFromYear(y) ==
  365 * (y - 1970) + ((y - 1969) \div 4) - ((y - 1901) \div 100) + ((y - 1601) \div 400)

InLeapYear(y) == (y % 4 = 0 /\ y % 100 # 0) \/ y % 400 = 0

DaysInYear(y) == IF InLeapYear(y) THEN 366 ELSE 365

YearFromDay(day) ==
  LET q == day \div 146097
      r == day % 146097
      k == CHOOSE c \in (r \div 366)..(r \div 365) :
             DayFromYear(1970 + c) <= r /\ r < DayFromYear(1971 + c)
  IN  1970 + 400 * q + k

MonthStart(mn, leap) ==
  LET l == IF leap THEN 1 ELSE 0
  IN  <<0, 31, 59 + l, 90 + l, 120 + l, 151 + l, 181 + l,
        212 + l, 243 + l, 273 + l, 304 + l, 334 + l, 365 + l>>[mn + 1]

MonthFromDay(day) ==
  LET y  == YearFromDay(day)
      dy == day - DayFromYear(y)
  IN  CHOOSE mn \in 0..11 :
        MonthStart(mn, InLeapYear(y)) <= dy /\ dy < MonthStart(mn + 1, InLeapYear(y))

DateFromDay(day) ==
  LET y  == YearFromDay(day)
      dy == day - DayFromYear(y)
  IN  dy - MonthStart(MonthFromDay(day), InLeapYear(y)) + 1

WeekDay(day) == (day + 4) % 7

MakeDay(year, month, date) ==
  LET ym == year + (month \div 12)
      mn == month % 12
  IN  DayFromYear(ym) + MonthStart(mn, InLeapYear(ym)) + date - 1

MakeTime(h, min, s, ms) == h * 3600000 + min * 60000 + s * 1000 + ms

MakeDate(day, time) == Norm(day, time)

(* A year argument in 0..99 is taken as 1900 + year. *)
FullYear(y) == IF 0 <= y /\ y <= 99 THEN 1900 + y ELSE y

DateUTC(y, m, d, h, min, s, ms) ==
  IF NaN \in {y, m, d, h, min, s, ms} THEN NaNMs
  ELSE TimeClip(MakeDate(MakeDay(FullYear(y), m, d), MakeTime(h, min, s, ms)))

NewDate(t) == TimeClip(t)

(* new Date(y, m, d): the civil reading is taken in the host's zone, whose *)
(* offset from UTC is hostOff minutes.                                     *)
NewDateLocal(hostOff, y, m, d) ==
  IF NaN \in {y, m, d} THEN NaNMs
  ELSE TimeClip(NSub(MakeDate(MakeDay(FullYear(y), m, d), 0), NTimes(hostOff, NOfInt(60000))))

GetDay(hostOff, t) ==
  IF IsNaNMs(t) THEN NaN ELSE WeekDay(NAdd(t, NTimes(hostOff, NOfInt(60000)))[1])

GetUTCFullYear(t) == IF IsNaNMs(t) THEN NaN ELSE YearFromDay(t[1])

GetUTCMonth(t) == IF IsNaNMs(t) THEN NaN ELSE MonthFromDay(t[1])

GetUTCDate(t) == IF IsNaNMs(t) THEN NaN ELSE DateFromDay(t[1])

GetUTCHours(t) == IF IsNaNMs(t) THEN NaN ELSE t[2] \div 3600000

GetUTCMinutes(t) == IF IsNaNMs(t) THEN NaN ELSE (t[2] \div 60000) % 60

GetUTCSeconds(t) == IF IsNaNMs(t) THEN NaN ELSE (t[2] \div 1000) % 60

GetUTCMilliseconds(t) == IF IsNaNMs(t) THEN NaN ELSE t[2] % 1000

(* x + 1 on a getter's result: NaN + 1 is NaN. *)
Plus(x, k) == IF x = NaN THEN NaN ELSE x + k

(* ------------------------------------------------------------------ *)
(*  0. Internal utils, 7. Utility functions                            *)
(* ------------------------------------------------------------------ *)
isLeapNo400(y) == JsRem(y, 4) = 0 /\ JsRem(y, 100) # 0

isLeap(y) == (JsRem(y, 4) = 0 /\ JsRem(y, 100) # 0) \/ JsRem(y, 400) = 0

daysInMonth == <<31, 28, 31, 30, 31, 30, 31, 31, 30, 31, 30, 31>>

MILLIS ==
  [SECOND |-> NOfInt(1000), MINUTE |-> NOfInt(60000), HOUR |-> NOfInt(3600000),
   DAY |-> Norm(1, 0), WEEK |-> Norm(7, 0)]

instant(epochMs) == [epochMs |-> epochMs]

duration(ms) == [ms |-> ms]

dateTime(y, month, d, h, min, s, ms) ==
  [y |-> y, m |-> month, d |-> d, h |-> h, min |-> min, s |-> s, ms |-> ms]

fromPlain(pdt) ==
  instant(DateUTC(pdt.y, Plus(pdt.m, -1), pdt.d, pdt.h, pdt.min, pdt.s, pdt.ms))

toPlain(i) ==
  LET d == NewDate(i.epochMs)
  IN  [y |-> GetUTCFullYear(d), m |-> Plus(GetUTCMonth(d), 1), d |-> GetUTCDate(d),
       h |-> GetUTCHours(d), min |-> GetUTCMinutes(d), s |-> GetUTCSeconds(d),
       ms |-> GetUTCMilliseconds(d)]

addDuration(dur, i) == instant(NAdd(i.epochMs, dur.ms))


(* ------------------------------------------------------------------ *)
(*  8. Calendar arithmetic                                             *)
(* ------------------------------------------------------------------ *)
mod(n, m) == JsRem(JsRem(n, m) + m, m)

addYears(n, d) == [d EXCEPT !.y = Plus(d.y, n)]

addMonthsNoLeap(n, d) ==
  IF d.m = NaN \/ d.y = NaN THEN [y |-> NaN, m |-> NaN, d |-> NaN]
  ELSE LET total == d.m - 1 + n
           y     == d.y + (total \div 12)
           m     == mod(total, 12) + 1
       IN  [y |-> y, m |-> m, d |-> Min(d.d, daysInMonth[m])]

(* With a NaN month every derived number is NaN: daysInMonth[NaN] is *)
(* undefined and Math.min with a NaN argument is NaN.                *)
addMonths(n, d) ==
  IF d.m = NaN \/ d.y = NaN THEN [y |-> NaN, m |-> NaN, d |-> NaN]
  ELSE LET total == d.m - 1 + n
           y     == d.y + (total \div 12)
           m     == mod(total, 12) + 1
           dim   == daysInMonth[m] + (IF m = 2 /\ isLeap(y) THEN 1 ELSE 0)
       IN  [y |-> y, m |-> m, d |-> Min(d.d, dim)]

addDays(n, d) ==
  LET ms == NAdd(fromPlain(dateTime(d.y, d.m, d.d, 0, 0, 0, 0)).epochMs, NTimes(n, MILLIS.DAY))
  IN  toPlain(instant(ms))

addHours(n, dt) == toPlain(instant(NAdd(fromPlain(dt).epochMs, NTimes(n, MILLIS.HOUR))))

addMinutes(n, dt) == toPlain(instant(NAdd(fromPlain(dt).epochMs, NTimes(n, MILLIS.MINUTE))))

addSeconds(n, dt) == toPlain(instant(NAdd(fromPlain(dt).epochMs, NTimes(n, MILLIS.SECOND))))

addMilliseconds(n, dt) == toPlain(instant(NAdd(fromPlain(dt).epochMs, NOfInt(n))))

(* ------------------------------------------------------------------ *)
(*  9. Day of week                                                     *)
(* ------------------------------------------------------------------ *)
dayOfWeek(hostOff, d) ==
  LET t == GetDay(hostOff, NewDateLocal(hostOff, d.y, d.m - 1, d.d))
  IN  IF t = 0 THEN 7 ELSE t

startOfWeek(hostOff, d, startOn) ==
  LET dow  == dayOfWeek(hostOff, d)
      diff == IF dow = NaN THEN NaN ELSE JsRem(dow - startOn + 7, 7)
  IN  addDays(IF diff = NaN THEN NaN ELSE -diff, d)


(* ------------------------------------------------------------------ *)
(*  2./10. Time zones (table-backed), 3. ZDT functor                   *)
(* ------------------------------------------------------------------ *)
TZ_DB ==
  [n \in {"UTC", "Europe/London", "America/New_York"} |->
     IF n = "America/New_York" THEN [baseOffset |-> -300] ELSE [baseOffset |-> 0]]

UTC == [name |-> "UTC", offsetMinutes |-> 0, dst |-> FALSE]

Throw(msg) == [error |-> msg]

(* property names every object literal inherits from Object.prototype *)
ObjectPrototype ==
  {"constructor", "toString", "valueOf", "hasOwnProperty", "isPrototypeOf",
   "propertyIsEnumerable", "toLocaleString", "__proto__"}

undefined == "undefined"

(* name in obj: own and inherited properties *)
HasProperty(obj, name) == name \in DOMAIN obj \/ name \in ObjectPrototype

(* obj[name].baseOffset: an inherited property's value has no baseOffset *)
GetBaseOffset(obj, name) ==
  IF name \in DOMAIN obj THEN obj[name].baseOffset ELSE undefined

zone(name) ==
  IF ~HasProperty(TZ_DB, name) THEN Throw("Unknown zone")
  ELSE [name |-> name, offsetMinutes |-> GetBaseOffset(TZ_DB, name), dst |-> FALSE]

(* TZ_DB[tz] is truthy for own and inherited properties, undefined otherwise *)
tzOffset(tz, i) ==
  IF ~HasProperty(TZ_DB, tz) THEN Throw("Unknown zone")
  ELSE GetBaseOffset(TZ_DB, tz)

zdt(i, z, p) == [instant |-> i, zone |-> z, payload |-> p]

zfmapRezone(f, z) == [instant |-> z.instant, zone |-> zone(z.zone.name), payload |-> f[z.payload]]

zfmap(f, z) == [z EXCEPT !.payload = f[z.payload]]

withZone(z, dt) == zdt(fromPlain(dt), z, dt)

(* ------------------------------------------------------------------ *)
(*  6. Durations, 12. Recurrence generators                            *)
(* ------------------------------------------------------------------ *)
durations(unit, n) ==
  CASE unit = "milliseconds" -> duration(NOfInt(n))
    [] unit = "seconds"      -> duration(NTimes(n, MILLIS.SECOND))
    [] unit = "minutes"      -> duration(NTimes(n, MILLIS.MINUTE))
    [] unit = "hours"        -> duration(NTimes(n, MILLIS.HOUR))
    [] unit = "days"         -> duration(NTimes(n, MILLIS.DAY))
    [] unit = "weeks"        -> duration(NTimes(n, MILLIS.WEEK))

everyYieldOrigin(origin, c) == origin

(* yield { ...origin, instant: instant(cur) } *)
everyYield(origin, c) == [origin EXCEPT !.instant = instant(c)]

everyStepTwice(d, c) == NAdd(NAdd(c, d.ms), d.ms)

(* cur += dur.ms *)
everyStep(d, c) == NAdd(c, d.ms)

everyDay == durations("days", 1)

(* yield { ...origin, payload: p } *)
everyMonthYield(o, p) == [o EXCEPT !.payload = p]

everyMonthStepNoTime(n, p) ==
  LET newDate == addMonths(n, p)
  IN  [y |-> newDate.y, m |-> newDate.m, d |-> newDate.d,
       h |-> 0, min |-> 0, s |-> 0, ms |-> 0]

everyMonthStepLastDay(n, p) ==
  LET newDate == addMonths(n, [p EXCEPT !.d = 1])
  IN  [y |-> newDate.y, m |-> newDate.m, d |-> daysInMonth[newDate.m],
       h |-> p.h, min |-> p.min, s |-> p.s, ms |-> p.ms]

(* newDate = addMonths(n)(p); p = { ...newDate, h: p.h, min: p.min, s: p.s, ms: p.ms } *)
everyMonthStep(n, p) ==
  LET newDate == addMonths(n, p)
  IN  [y |-> newDate.y, m |-> newDate.m, d |-> newDate.d,
       h |-> p.h, min |-> p.min, s |-> p.s, ms |-> p.ms]

genCursorShared(gs, g) ==
  LET same == {h \in DOMAIN gs : gs[h].pc = gs[g].pc}
  IN  gs[CHOOSE h \in same : \A k \in same : gs[h].count >= gs[k].count].cur

(* `let cur` / `let p` is declared in the generator function's body: each *)
(* generator object reads and writes its own.                            *)
genCursor(gs, g) == gs[g].cur

everyWeek == durations("weeks", 1)

(* ------------------------------------------------------------------ *)
(*  The host's civil clock: Intl.DateTimeFormat, toLocaleString and    *)
(*  the local-time Date constructors (part_001, section 2)             *)
(* ------------------------------------------------------------------ *)
(* identifiers new Intl.DateTimeFormat('en', {timeZone}) accepts *)
RecognisedZones ==
  {"UTC", "America/New_York", "Europe/London", "Australia/Sydney", "Asia/Tokyo"}

(* F(e), with e evaluated once however often F uses it *)
With(e, F(_)) == CHOOSE r \in {F(v) : v \in {e}} : TRUE

Mins(k) == Norm(0, k * 60000)

(* day number of the n-th Sunday of month mn (0-based) of year y *)
NthSunday(y, mn, n) ==
  LET first == MakeDay(y, mn, 1)
  IN  first + ((7 - WeekDay(first)) % 7) + 7 * (n - 1)

LastSunday(y, mn) ==
  LET lastDay == MakeDay(y, mn + 1, 1) - 1
  IN  lastDay - WeekDay(lastDay)

(* The zone's rule in year y: standard and summer offsets in minutes east  *)
(* of UTC and the UTC instants at which summer time goes on and off.       *)
ZoneRule(z, y) ==
  CASE z = "America/New_York" ->
         [std |-> -300, dst |-> -240,
          on  |-> Norm(NthSunday(y, 2, 2), 7 * 3600000),
          off |-> Norm(NthSunday(y, 10, 1), 6 * 3600000)]
    [] z = "Europe/London" ->
         [std |-> 0, dst |-> 60,
          on  |-> Norm(LastSunday(y, 2), 3600000),
          off |-> Norm(LastSunday(y, 9), 3600000)]
    [] z = "Australia/Sydney" ->
         [std |-> 600, dst |-> 660,
          on  |-> Norm(NthSunday(y, 9, 1) - 1, 16 * 3600000),
          off |-> Norm(NthSunday(y, 3, 1) - 1, 16 * 3600000)]
    [] z = "Asia/Tokyo" ->
         [std |-> 540, dst |-> 540, on |-> <<0, 0>>, off |-> <<0, 0>>]
    [] OTHER ->
         [std |-> 0, dst |-> 0, on |-> <<0, 0>>, off |-> <<0, 0>>]

(* minutes east of UTC shown by a clock in zone z at the instant t *)
ZoneOffset(z, t) ==
  With(ZoneRule(z, YearFromDay(t[1])), LAMBDA r :
    IF r.std = r.dst THEN r.std
    ELSE IF NLess(r.on, r.off)
         THEN (IF ~NLess(t, r.on) /\ NLess(t, r.off) THEN r.dst ELSE r.std)
         ELSE (IF ~NLess(t, r.off) /\ NLess(t, r.on) THEN r.std ELSE r.dst))

ZoneAbbreviation(z, t) ==
  LET summer == ZoneOffset(z, t) # ZoneRule(z, YearFromDay(t[1])).std
  IN  CASE z = "America/New_York" -> (IF summer THEN "EDT" ELSE "EST")
        [] z = "Europe/London"    -> (IF summer THEN "GMT+1" ELSE "GMT")
        [] z = "Australia/Sydney" -> (IF summer THEN "GMT+11" ELSE "GMT+10")
        [] z = "Asia/Tokyo"       -> "GMT+9"
        [] OTHER                  -> "UTC"

(* the text a Date that holds NaN is written as, and text that is no date *)
InvalidDate == [text |-> "Invalid Date"]

(* date.toLocaleString('en-US', {timeZone: z}): the civil reading of the   *)
(* zone's clock, "M/D/YYYY, h:mm:ss AM": no milliseconds.                  *)
toLocaleString(z, t) ==
  IF IsNaNMs(t) THEN InvalidDate
  ELSE With(NAdd(t, Mins(ZoneOffset(z, t))), LAMBDA l :
         [y |-> GetUTCFullYear(l), m |-> GetUTCMonth(l) + 1, d |-> GetUTCDate(l),
          h |-> GetUTCHours(l), min |-> GetUTCMinutes(l), s |-> GetUTCSeconds(l)])

(* UTC(t) of ECMA-262 for a local time value tl of the host zone hz: a     *)
(* reading that occurs twice is the earlier instant, a skipped reading is  *)
(* taken with the offset in force before the transition.                   *)
LocalToUTC(hz, tl) ==
  With(ZoneRule(hz, YearFromDay(tl[1])), LAMBDA r :
    LET hi == IF r.std >= r.dst THEN r.std ELSE r.dst
        lo == IF r.std >= r.dst THEN r.dst ELSE r.std
    IN  With(<<NSub(tl, Mins(hi)), NSub(tl, Mins(lo))>>, LAMBDA ab :
          With(ZoneOffset(hz, ab[1]), LAMBDA before :
            IF before = hi THEN ab[1]
            ELSE IF ZoneOffset(hz, ab[2]) = lo THEN ab[2]
            ELSE NSub(tl, Mins(before)))))

(* new Date(string) of such a reading: no zone in the string, so it is     *)
(* read as local time of the host zone hz.                                 *)
ParseDate(hz, c) ==
  IF c = InvalidDate THEN NaNMs
  ELSE With(MakeDate(MakeDay(c.y, c.m - 1, c.d), MakeTime(c.h, c.min, c.s, 0)),
            LAMBDA tl : TimeClip(LocalToUTC(hz, tl)))

(* date.getFullYear(): the year of the host zone's reading *)
GetFullYear(hz, t) ==
  IF IsNaNMs(t) THEN NaN ELSE YearFromDay(NAdd(t, Mins(ZoneOffset(hz, t)))[1])

(* new Date(year, month, day, h, min, s): local time of the host zone *)
NewDateFields(hz, y, mn, d, h, min, s) ==
  IF NaN \in {y, mn, d, h, min, s} THEN NaNMs
  ELSE With(MakeDate(MakeDay(FullYear(y), mn, d), MakeTime(h, min, s, 0)),
            LAMBDA tl : TimeClip(LocalToUTC(hz, tl)))

(* Math.round of a / 60000 for a millisecond difference a *)
RoundMinutes(a) ==
  IF IsNaNMs(a) THEN NaN ELSE (2 * (a[1] * msPerDay + a[2]) + 60000) \div 120000

JsNeg(x) == IF x = NaN THEN NaN ELSE -x

(* a > b of JavaScript: false when either side is NaN *)
JsGreater(a, b) == a # NaN /\ b # NaN /\ a > b

(* ------------------------------------------------------------------ *)
(*  part_001: 2. Time-zone system (Intl), 10. Timezone support         *)
(* ------------------------------------------------------------------ *)
IsThrow(r) == "error" \in DOMAIN r

(* catch { return {...} } *)
UTCFallback ==
  [name |-> "UTC", offsetMinutes |-> 0, dst |-> FALSE, abbreviation |-> "UTC"]

(* getOffsetForDate(testDate), for the zone tzName on a host in zone hz *)
getOffsetForDate(hz, tzName, testDate) ==
  With(<<toLocaleString("UTC", testDate), toLocaleString(tzName, testDate)>>,
       LAMBDA text :
         LET utcTest   == ParseDate(hz, text[1])
             localTest == ParseDate(hz, text[2])
         IN  With(NSub(utcTest, localTest), LAMBDA diff : JsNeg(RoundMinutes(diff))))

(* the body of the try block: a record, or the exception it throws *)
getTimezoneInfoTry(hz, tzName, i) ==
  IF tzName \notin RecognisedZones THEN Throw("RangeError")
  ELSE
    With(NewDate(i.epochMs), LAMBDA date :
    With(<<toLocaleString("UTC", date), toLocaleString(tzName, date)>>, LAMBDA text :
    With(<<ParseDate(hz, text[1]), ParseDate(hz, text[2])>>, LAMBDA parsed :
    With(GetFullYear(hz, date), LAMBDA year :
    With(<<NewDateFields(hz, year, 0, 1, 12, 0, 0),
           NewDateFields(hz, year, 6, 1, 12, 0, 0)>>, LAMBDA refs :
    With(<<getOffsetForDate(hz, tzName, refs[1]),
           getOffsetForDate(hz, tzName, refs[2])>>, LAMBDA refOffset :
      LET utcTime        == parsed[1]
          localTime      == parsed[2]
          offsetMinutes  == JsNeg(RoundMinutes(NSub(utcTime, localTime)))
          janOffset      == refOffset[1]
          julOffset      == refOffset[2]
          standardOffset == Min(janOffset, julOffset)
          dst            == JsGreater(offsetMinutes, standardOffset)
      IN  IF IsNaNMs(date) THEN Throw("RangeError")   \* formatToParts(date)
          ELSE [name |-> tzName, offsetMinutes |-> offsetMinutes, dst |-> dst,
                abbreviation |-> ZoneAbbreviation(tzName, date)]))))))

getTimezoneInfoNoCatch(hz, tzName, i) == getTimezoneInfoTry(hz, tzName, i)

getTimezoneInfo(hz, tzName, i) ==
  With(getTimezoneInfoTry(hz, tzName, i), LAMBDA r :
    IF IsThrow(r) THEN UTCFallback ELSE r)

tzOffsetIntl(hz, tz, i) == getTimezoneInfo(hz, tz, i).offsetMinutes

(* a parameter with the default value now(): args is <<>> or <<instant>> *)
OrNow(args, nowI) == IF args = <<>> THEN nowI ELSE args[1]

zoneIntl(hz, nowI, name, args) == getTimezoneInfo(hz, name, OrNow(args, nowI))

withZoneName(hz, zoneName, dt) ==
  With(fromPlain(dt), LAMBDA i :
    LET tzInfo == zoneIntl(hz, i, zoneName, <<i>>)
    IN  zdt(i, tzInfo, dt))

toZoneSameInstant(hz, zoneName, zdtObj) ==
  With(zoneIntl(hz, zdtObj.instant, zoneName, <<zdtObj.instant>>), LAMBDA newZone :
    zdt(zdtObj.instant, newZone, zdtObj.payload))

(* newZone = zone(zoneName, zdtObj.instant);                               *)
(* adjustedMs = epochMs + (newZone.offsetMinutes - zone.offsetMinutes) * 60_000 *)
toZone(hz, zoneName, zdtObj) ==
  With(zoneIntl(hz, zdtObj.instant, zoneName, <<zdtObj.instant>>), LAMBDA newZone :
    LET adjustedMs == NAdd(zdtObj.instant.epochMs,
                           Mins(newZone.offsetMinutes - zdtObj.zone.offsetMinutes))
    IN  zdt(instant(adjustedMs), newZone, zdtObj.payload))

isValidTimezone(tzName) == tzName \in RecognisedZones

getTimezoneOffset(hz, nowI, tzName, args) == tzOffsetIntl(hz, tzName, OrNow(args, nowI))

isDST(hz, nowI, tzName, args) == getTimezoneInfo(hz, tzName, OrNow(args, nowI)).dst

(* ------------------------------------------------------------------ *)
(*  16. Factory and ReamDate (ream.ts and part_001)                    *)
(* ------------------------------------------------------------------ *)
(* The object's methods close over instant and timeZone. *)
makeReam(i, timeZone) == [instant |-> i, timeZone |-> timeZone]

valueOf(rd) == rd.instant.epochMs

(* new Date(isoString) for "YYYY-MM-DDTHH:mm:ss" (no offset: local time of *)
(* the host zone) written as its civil fields, or for text that is no date *)
NewDateISO(hz, str) ==
  IF str = InvalidDate THEN NaNMs
  ELSE With(MakeDate(MakeDay(str.y, str.m - 1, str.d),
                     MakeTime(str.h, str.min, str.s, 0)),
            LAMBDA tl : TimeClip(LocalToUTC(hz, tl)))

(* ream.ts: throws on text that is no date *)
parseISO(hz, isoString) ==
  LET d == NewDateISO(hz, isoString)
  IN  IF IsNaNMs(d) THEN Throw("Invalid ISO string") ELSE toPlain(instant(d))

(* part_001: returns the epoch instead of throwing *)
parseISOIntl(hz, isoString) ==
  LET d == NewDateISO(hz, isoString)
  IN  IF IsNaNMs(d) THEN dateTime(1970, 1, 1, 0, 0, 0, 0) ELSE toPlain(instant(d))

(* typeof input: the input is [string |-> text], [number |-> n],           *)
(* [plain |-> PlainDateTime] or, when omitted, [none |-> TRUE]              *)
TypeOf(input) == CHOOSE k \in DOMAIN input : TRUE

(* the instant of ream(input), parsed being parseISO(input) for a string *)
reamInstant(parsed, nowI, input) ==
  CASE TypeOf(input) = "string" -> IF IsThrow(parsed) THEN parsed ELSE fromPlain(parsed)
    [] TypeOf(input) = "number" -> [epochMs |-> input.number]
    [] TypeOf(input) = "plain"  -> fromPlain(input.plain)
    [] OTHER                    -> nowI

(* ream.ts *)
ream(hz, nowI, input, zoneName) ==
  LET i == reamInstant(IF TypeOf(input) = "string" THEN parseISO(hz, input.string)
                       ELSE input, nowI, input)
      timeZone == IF zoneName = "UTC" THEN UTC ELSE zone(zoneName)
  IN  IF IsThrow(i) THEN i
      ELSE IF IsThrow(timeZone) THEN timeZone
      ELSE makeReam(i, timeZone)

(* part_001: zone(zoneName) takes its instant by default, now() *)
reamIntl(hz, nowI, input, zoneName) ==
  LET i == reamInstant(IF TypeOf(input) = "string" THEN parseISOIntl(hz, input.string)
                       ELSE input, nowI, input)
      timeZone == IF zoneName = "UTC" THEN UTC ELSE zoneIntl(hz, nowI, zoneName, <<>>)
  IN  makeReam(i, timeZone)

(* ream.ts: tz: (name) => makeReam(instant, zone(name)) *)
tz(rd, name) ==
  LET z == zone(name)
  IN  IF IsThrow(z) THEN z ELSE makeReam(rd.instant, z)

tzIntlShift(hz, rd, name) ==
  LET z == zoneIntl(hz, rd.instant, name, <<rd.instant>>)
  IN  makeReam(instant(NAdd(rd.instant.epochMs,
                            Mins(z.offsetMinutes - rd.timeZone.offsetMinutes))), z)

(* part_001: tz: (name) => makeReam(instant, zone(name, instant)) *)
tzIntl(hz, rd, name) ==
  makeReam(rd.instant, zoneIntl(hz, rd.instant, name, <<rd.instant>>))

(* utc: () => makeReam(instant, UTC) *)
utc(rd) == makeReam(rd.instant, UTC)

(* timezone: () => timeZone, isDST: () => timeZone.dst, offset: () => timeZone.offsetMinutes *)
timezone(rd) == rd.timeZone

reamIsDST(rd) == rd.timeZone.dst

reamOffset(rd) == rd.timeZone.offsetMinutes

(* getters: year: () => toPlain(instant).y, ... *)
reamYear(r) == toPlain(r.instant).y

reamMonth(r) == toPlain(r.instant).m

reamDate(r) == toPlain(r.instant).d

(* day: () => dayOfWeek(toPlain(instant)) *)
reamDay(hostOff, r) == dayOfWeek(hostOff, toPlain(r.instant))

reamHour(r) == toPlain(r.instant).h

reamMinute(r) == toPlain(r.instant).min

reamSecond(r) == toPlain(r.instant).s

reamMillisecond(r) == toPlain(r.instant).ms

(* clone: () => makeReam(instant, timeZone) *)
clone(r) == makeReam(r.instant, r.timeZone)

(* add: (v, unit) => makeReam(addDuration(durations[unit](v))(instant), timeZone) *)
add(r, v, unit) == makeReam(addDuration(durations(unit, v), r.instant), r.timeZone)

subtractSameSign(r, v, unit) ==
  makeReam(addDuration(durations(unit, v), r.instant), r.timeZone)

(* subtract: (v, unit) => makeReam(addDuration(durations[unit](-v))(instant), timeZone) *)
subtract(r, v, unit) ==
  makeReam(addDuration(durations(unit, -v), r.instant), r.timeZone)

(* An object of the session: the ReamDate an object literal of makeReam      *)
(* made, the object each plug-in method closes over (0: method absent), and  *)
(* the call that made it.                                                    *)
ReamObject(r, op, args, from) ==
  [obj |-> r, fromNow |-> 0, nextBusinessDay |-> 0,
   made |-> [op |-> op, args |-> args, from |-> from]]

AllocInPlace(h, k, o) == IF k \in DOMAIN h THEN [h EXCEPT ![k] = o] ELSE Append(h, o)

(* `({ ... })` and `{ ...rd, ...business(rd) }` evaluate to a new object: the *)
(* heap h gets the object o, the receiver at k stays as it is                *)
Alloc(h, k, o) == Append(h, o)

(* 17. plug-ins: install: (rd) => ({ ...rd, ...business(rd) }), the new      *)
(* method closing over the object k that was extended                        *)
install(plugin, h, k) ==
  IF plugin = "relativePlugin"
  THEN [h[k] EXCEPT !.fromNow = k, !.made = [op |-> "extend", args |-> <<plugin>>, from |-> k]]
  ELSE [h[k] EXCEPT !.nextBusinessDay = k,
                    !.made = [op |-> "extend", args |-> <<plugin>>, from |-> k]]

(* rd.day() === 6 || rd.day() === 0 *)
businessWeekend(hostOff, r) == reamDay(hostOff, r) = 6 \/ reamDay(hostOff, r) = 0

(* nextBusinessDay: () => (... ? rd.add(1, "days") : rd) *)
nextBusinessDay(hostOff, r) ==
  IF businessWeekend(hostOff, r) THEN add(r, 1, "days") ELSE r

(* ------------------------------------------------------------------ *)
(*  State                                                              *)
(* ------------------------------------------------------------------ *)
VARIABLES
  host,     \* the host zone's offset from UTC in minutes (local Date calls)
  cur,      \* the civil value in hand: a PlainDate or a PlainDateTime
  inst,     \* the Instant in hand
  last,     \* the last calendar call: [op, n, in, out]
  steps,    \* number of calendar calls made
  zv,       \* the ZDT in hand
  zlast,    \* the last ZDT call: [op, f, in]
  origin,   \* the origin a recurrence rule is invoked on
  dur,      \* the Duration of the rule every(dur)
  nMonths,  \* the n of the rule everyMonth(n)
  gens,     \* the generator objects obtained from the rule
  lib,      \* the build a session runs: "ream.ts" or "part_001"
  hostZone, \* the zone of the host's local time (part_001's Date calls)
  clock,    \* the Instant now() returns
  tzlast,   \* the last zone-level call: [op, name, args, now, in, out]
  rd,       \* the ReamDate in hand
  heap      \* the ReamDate objects a session created, in order of creation

calVars == <<host, cur, inst, last, steps>>

zdtVars == <<zv, zlast>>

genVars == <<origin, dur, nMonths, gens>>

tzVars == <<lib, hostZone, clock, tzlast, rd, heap>>

vars == <<host, cur, inst, last, steps, zv, zlast, origin, dur, nMonths, gens,
          lib, hostZone, clock, tzlast, rd, heap>>

MaxSteps == 2

MaxPayload == 2

MaxPulls == 4

NumGens == 2

Hosts == {-300, 540}

Dates ==
  { dateTime(2023, 1, 31, 0, 0, 0, 0),    dateTime(2024, 1, 31, 8, 0, 0, 0),
    dateTime(2024, 2, 29, 12, 0, 0, 0),   dateTime(2023, 12, 31, 23, 59, 59, 999),
    dateTime(2023, 7, 15, 14, 30, 45, 123), dateTime(2023, 11, 15, 0, 0, 0, 0),
    dateTime(1970, 1, 1, 0, 0, 0, 0),     dateTime(1969, 12, 31, 23, 59, 59, 999),
    dateTime(1900, 2, 28, 6, 0, 0, 0),    dateTime(2000, 2, 29, 0, 0, 0, 1),
    dateTime(100, 1, 1, 0, 0, 0, 0),      dateTime(50, 1, 1, 0, 0, 0, 0),
    dateTime(0, 3, 1, 0, 0, 0, 0),        dateTime(-1, 12, 31, 23, 0, 0, 0),
    dateTime(-400, 2, 29, 0, 0, 0, 0),    dateTime(20000, 2, 29, 0, 0, 0, 0) }

Epochs ==
  { <<0, 0>>, <<-1, 86399999>>, <<19553, 52245123>>, <<-25509, 1>>,
    <<-700000, 43200000>>, <<-719529, 0>>, <<MaxTimeDays, 0>>, <<MaxTimeDays, 1>>,
    <<-MaxTimeDays - 1, 86399999>> }

Years == {-401, -400, -100, -4, -1, 0, 1, 4, 100, 400, 1900, 2000, 2023, 2024}

YearArgs == {-1, 1, 4}

MonthArgs == {-25, -14, -1, 0, 1, 3, 13}

DayArgs == {-366, -31, -1, 0, 1, 59}

ClockArgs == {-25, 36}

WeekStarts == {0, 1, 7}

Payloads == 0..MaxPayload

Fns == [Payloads -> Payloads]

IdFn == [x \in Payloads |-> x]

Compose(g, f) == [x \in Payloads |-> g[f[x]]]

Zones == {UTC, zone("America/New_York"),
          [name |-> "America/New_York", offsetMinutes |-> -240, dst |-> TRUE]}

ZInstants == {instant(<<0, 0>>), instant(NOfInt(1234567890)), instant(<<-1, 86399999>>),
              instant(<<19553, 52245123>>)}

Origins ==
  { zdt(instant(NOfInt(1000)), UTC, dateTime(2023, 1, 1, 0, 0, 0, 0)),
    zdt(instant(<<0, 0>>), UTC, dateTime(2023, 1, 1, 0, 0, 0, 0)),
    withZone(zone("America/New_York"), dateTime(2023, 1, 15, 12, 0, 0, 0)),
    withZone(zone("Europe/London"), dateTime(1969, 12, 31, 23, 59, 59, 999)),
    withZone([name |-> "America/New_York", offsetMinutes |-> -240, dst |-> TRUE],
             dateTime(2024, 2, 29, 12, 0, 0, 0)) }

Durs ==
  { durations("seconds", 1), everyDay, everyWeek, durations("milliseconds", -500),
    durations("hours", -36), durations("days", 0) }

GenIds == 1..NumGens

NoGen == [pc |-> "none", cur |-> undefined, value |-> undefined, count |-> 0]

IsDateTime(v) == DOMAIN v = {"y", "m", "d", "h", "min", "s", "ms"}

Call(op, n, in, out) == [op |-> op, n |-> n, in |-> in, out |-> out]

CalIdle ==
  /\ host = 0
  /\ cur = dateTime(1970, 1, 1, 0, 0, 0, 0)
  /\ inst = instant(<<0, 0>>)
  /\ last = Call("init", 0, cur, cur)
  /\ steps = 0

ZdtIdle ==
  /\ zv = zdt(instant(<<0, 0>>), UTC, 0)
  /\ zlast = [op |-> "zdt", f |-> IdFn, in |-> zv]

GenIdle ==
  /\ origin = zdt(instant(<<0, 0>>), UTC, dateTime(1970, 1, 1, 0, 0, 0, 0))
  /\ dur = duration(<<0, 0>>)
  /\ nMonths = 1
  /\ gens = [g \in GenIds |-> NoGen]

ZoneCall(op, name, args, nowI, in, out) ==
  [op |-> op, name |-> name, args |-> args, now |-> nowI, in |-> in, out |-> out]

TzIdle ==
  /\ lib = "ream.ts"
  /\ hostZone = "UTC"
  /\ clock = instant(<<0, 0>>)
  /\ rd = makeReam(instant(<<0, 0>>), UTC)
  /\ heap = <<>>
  /\ tzlast = ZoneCall("init", "UTC", <<>>, clock, rd, rd)

(* ------------------------------------------------------------------ *)
(*  Calls on the conversion and calendar functions                     *)
(* ------------------------------------------------------------------ *)
Init ==
  /\ host \in Hosts
  /\ cur \in Dates
  /\ inst = instant(<<0, 0>>)
  /\ last = Call("init", 0, cur, cur)
  /\ steps = 0
  /\ ZdtIdle
  /\ GenIdle
  /\ TzIdle

Step == steps < MaxSteps /\ steps' = steps + 1

(* a call that returns a civil value *)
Civil(op, n, out) ==
  /\ Step
  /\ cur' = out
  /\ last' = Call(op, n, cur, out)
  /\ UNCHANGED <<tzVars, host, inst, zdtVars, genVars>>

(* a call that returns a number or a boolean *)
Scalar(op, n, in, out) ==
  /\ Step
  /\ last' = Call(op, n, in, out)
  /\ UNCHANGED <<tzVars, host, cur, inst, zdtVars, genVars>>

Instant == \E e \in Epochs :
  /\ Step
  /\ inst' = instant(e)
  /\ last' = Call("instant", 0, e, inst')
  /\ UNCHANGED <<tzVars, host, cur, zdtVars, genVars>>

FromPlain ==
  /\ IsDateTime(cur)
  /\ Step
  /\ inst' = fromPlain(cur)
  /\ last' = Call("fromPlain", 0, cur, inst')
  /\ UNCHANGED <<tzVars, host, cur, zdtVars, genVars>>

ToPlain ==
  /\ Step
  /\ cur' = toPlain(inst)
  /\ last' = Call("toPlain", 0, inst, cur')
  /\ UNCHANGED <<tzVars, host, inst, zdtVars, genVars>>

IsLeap == \E y \in Years : Scalar("isLeap", y, y, isLeap(y))

AddYears == \E n \in YearArgs : Civil("addYears", n, addYears(n, cur))

AddMonths == \E n \in MonthArgs : Civil("addMonths", n, addMonths(n, cur))

AddDays == \E n \in DayArgs : Civil("addDays", n, addDays(n, cur))

AddHours == \E n \in ClockArgs : IsDateTime(cur) /\ Civil("addHours", n, addHours(n, cur))

AddMinutes == \E n \in ClockArgs : IsDateTime(cur) /\ Civil("addMinutes", n, addMinutes(n, cur))

AddSeconds == \E n \in ClockArgs : IsDateTime(cur) /\ Civil("addSeconds", n, addSeconds(n, cur))

AddMilliseconds ==
  \E n \in ClockArgs : IsDateTime(cur) /\ Civil("addMilliseconds", n, addMilliseconds(n, cur))

DayOfWeek == Scalar("dayOfWeek", 0, cur, dayOfWeek(host, cur))

StartOfWeek == \E w \in WeekStarts : Civil("startOfWeek", w, startOfWeek(host, cur, w))

Next ==
  \/ Instant
  \/ FromPlain
  \/ ToPlain
  \/ IsLeap
  \/ AddYears
  \/ AddMonths
  \/ AddDays
  \/ AddHours
  \/ AddMinutes
  \/ AddSeconds
  \/ AddMilliseconds
  \/ DayOfWeek
  \/ StartOfWeek

Spec == Init /\ [][Next]_vars

(* ------------------------------------------------------------------ *)
(*  Calls on the ZDT functor                                           *)
(* ------------------------------------------------------------------ *)
InitZdt ==
  /\ CalIdle
  /\ GenIdle
  /\ TzIdle
  /\ \E i \in ZInstants, z \in Zones, p \in Payloads : zv = zdt(i, z, p)
  /\ zlast = [op |-> "zdt", f |-> IdFn, in |-> zv]

Zdt == \E i \in ZInstants, z \in Zones, p \in Payloads :
  /\ zv' = zdt(i, z, p)
  /\ zlast' = [op |-> "zdt", f |-> IdFn, in |-> zv']
  /\ UNCHANGED <<tzVars, calVars, genVars>>

Zfmap == \E f \in Fns :
  /\ zv' = zfmap(f, zv)
  /\ zlast' = [op |-> "zfmap", f |-> f, in |-> zv]
  /\ UNCHANGED <<tzVars, calVars, genVars>>

NextZdt ==
  \/ Zdt
  \/ Zfmap

SpecZdt == InitZdt /\ [][NextZdt]_vars

(* ------------------------------------------------------------------ *)
(*  Recurrence: generators of every(dur) on one origin                 *)
(* ------------------------------------------------------------------ *)
InitEvery ==
  /\ CalIdle
  /\ ZdtIdle
  /\ TzIdle
  /\ origin \in Origins
  /\ dur \in Durs
  /\ nMonths = 1
  /\ gens = [g \in GenIds |-> NoGen]

(* next() of a generator that returns after its second element *)
PullFinite(g) ==
  /\ gens[g].pc \in {"start", "yield"}
  /\ gens[g].count < MaxPulls
  /\ LET c == IF gens[g].pc = "start" THEN origin.instant.epochMs
              ELSE everyStep(dur, genCursor(gens, g))
     IN  gens' = [gens EXCEPT ![g] = [pc |-> IF gens[g].count >= 2 THEN "done" ELSE "yield",
                                      cur |-> c,
                                      value |-> everyYield(origin, c),
                                      count |-> gens[g].count + 1]]
  /\ UNCHANGED <<tzVars, calVars, zdtVars, origin, dur, nMonths>>

(* every(dur)(origin): the generator object exists, its body has not run *)
Invoke(g) ==
  /\ gens[g].pc = "none"
  /\ gens' = [gens EXCEPT ![g].pc = "start"]
  /\ UNCHANGED <<tzVars, calVars, zdtVars, origin, dur, nMonths>>

(* next(): run the body up to the next yield *)
Pull(g) ==
  /\ gens[g].pc \in {"start", "yield"}
  /\ gens[g].count < MaxPulls
  /\ LET c == IF gens[g].pc = "start" THEN origin.instant.epochMs
              ELSE everyStep(dur, genCursor(gens, g))
     IN  gens' = [gens EXCEPT ![g] = [pc |-> "yield", cur |-> c,
                                      value |-> everyYield(origin, c),
                                      count |-> gens[g].count + 1]]
  /\ UNCHANGED <<tzVars, calVars, zdtVars, origin, dur, nMonths>>

NextEvery ==
  \/ \E g \in GenIds : Invoke(g)
  \/ \E g \in GenIds : Pull(g)

SpecEvery == InitEvery /\ [][NextEvery]_vars

(* ------------------------------------------------------------------ *)
(*  Recurrence: generators of everyMonth(n) on one origin              *)
(* ------------------------------------------------------------------ *)
MonthOrigins ==
  { zdt(instant(<<0, 0>>), UTC, dateTime(2023, 1, 15, 12, 0, 0, 0)),
    withZone(zone("America/New_York"), dateTime(2023, 11, 28, 23, 59, 59, 999)),
    withZone(UTC, dateTime(2024, 1, 31, 8, 30, 0, 0)),
    withZone(zone("Europe/London"), dateTime(2024, 2, 29, 0, 0, 0, 1)),
    withZone(UTC, dateTime(1999, 12, 1, 6, 0, 0, 0)) }

MonthSteps == {-1, 0, 1, 2, 12, 13}

InitMonth ==
  /\ CalIdle
  /\ ZdtIdle
  /\ TzIdle
  /\ origin \in MonthOrigins
  /\ dur = duration(<<0, 0>>)
  /\ nMonths \in MonthSteps
  /\ gens = [g \in GenIds |-> NoGen]

(* everyMonth(n)(origin): the generator object exists, its body has not run *)
InvokeMonth(g) ==
  /\ gens[g].pc = "none"
  /\ gens' = [gens EXCEPT ![g].pc = "mstart"]
  /\ UNCHANGED <<tzVars, calVars, zdtVars, origin, dur, nMonths>>

(* next(): run the body up to the next yield *)
PullMonth(g) ==
  /\ gens[g].pc \in {"mstart", "myield"}
  /\ gens[g].count < MaxPulls
  /\ LET p == IF gens[g].pc = "mstart" THEN origin.payload
              ELSE everyMonthStep(nMonths, genCursor(gens, g))
     IN  gens' = [gens EXCEPT ![g] = [pc |-> "myield", cur |-> p,
                                      value |-> everyMonthYield(origin, p),
                                      count |-> gens[g].count + 1]]
  /\ UNCHANGED <<tzVars, calVars, zdtVars, origin, dur, nMonths>>

NextMonth ==
  \/ \E g \in GenIds : InvokeMonth(g)
  \/ \E g \in GenIds : PullMonth(g)

SpecMonth == InitMonth /\ [][NextMonth]_vars

(* ------------------------------------------------------------------ *)
(*  Recurrence: generators of both rules on one origin                 *)
(* ------------------------------------------------------------------ *)
InitRecur ==
  /\ CalIdle
  /\ ZdtIdle
  /\ TzIdle
  /\ origin \in Origins \cup MonthOrigins
  /\ dur \in Durs
  /\ nMonths \in MonthSteps
  /\ gens = [g \in GenIds |-> NoGen]

NextRecur ==
  \/ \E g \in GenIds : Invoke(g)
  \/ \E g \in GenIds : Pull(g)
  \/ \E g \in GenIds : InvokeMonth(g)
  \/ \E g \in GenIds : PullMonth(g)

SpecRecur == InitRecur /\ [][NextRecur]_vars

(* ------------------------------------------------------------------ *)
(*  Zone resolution: calls on the zone functions of either build       *)
(* ------------------------------------------------------------------ *)
Libs == {"ream.ts", "part_001"}

HostZones == {"UTC", "America/New_York", "Europe/London"}

ZoneNames == RecognisedZones \cup {"Not/AZone", "constructor"}

At(y, m, d, h, min) == instant(MakeDate(MakeDay(y, m - 1, d), MakeTime(h, min, 0, 0)))

TzInstants ==
  { At(2023, 1, 15, 12, 0), instant(<<19553, 52245123>>),
    At(2023, 3, 12, 0, 0), At(2023, 3, 12, 7, 0),
    instant(NSub(At(2023, 3, 12, 7, 0).epochMs, <<0, 1>>)),
    At(2023, 11, 5, 0, 0), At(2023, 10, 29, 0, 30),
    At(2023, 12, 31, 23, 30), At(2024, 2, 29, 12, 0), instant(NaNMs),
    instant(<<MaxTimeDays, 1>>) }

Clocks == {At(2023, 1, 15, 12, 0), At(2023, 7, 15, 12, 0), At(2024, 1, 15, 12, 0)}

(* the optional instant argument: omitted or given *)
InstantArgs == {<<>>} \cup {<<i>> : i \in TzInstants}

otherVars == <<calVars, zdtVars, genVars>>

InitZone ==
  /\ CalIdle
  /\ ZdtIdle
  /\ GenIdle
  /\ lib \in Libs
  /\ hostZone \in HostZones
  /\ clock \in Clocks
  /\ rd = makeReam(instant(<<0, 0>>), UTC)
  /\ heap = <<>>
  /\ tzlast = ZoneCall("init", "UTC", <<>>, clock, rd, rd)

(* time passes between calls *)
Tick == \E c \in Clocks :
  /\ NLess(clock.epochMs, c.epochMs)
  /\ clock' = c
  /\ UNCHANGED <<heap, lib, hostZone, tzlast, rd, otherVars>>

(* one call of a zone function, with the clock's reading at the call *)
Calls(op, name, args, out) ==
  /\ tzlast.op = "init"
  /\ tzlast' = ZoneCall(op, name, args, clock, rd, out)
  /\ UNCHANGED <<heap, lib, hostZone, clock, rd, otherVars>>

GetTimezoneInfo == \E name \in ZoneNames, i \in TzInstants :
  /\ lib = "part_001"
  /\ Calls("getTimezoneInfo", name, <<i>>, getTimezoneInfo(hostZone, name, i))

TzOffset == \E name \in ZoneNames, i \in TzInstants :
  Calls("tzOffset", name, <<i>>,
        IF lib = "ream.ts" THEN tzOffset(name, i) ELSE tzOffsetIntl(hostZone, name, i))

Zone == \E name \in ZoneNames, args \in InstantArgs :
  /\ lib = "ream.ts" => args = <<>>
  /\ Calls("zone", name, args,
           IF lib = "ream.ts" THEN zone(name) ELSE zoneIntl(hostZone, clock, name, args))

GetTimezoneOffset == \E name \in ZoneNames, args \in InstantArgs :
  /\ lib = "part_001"
  /\ Calls("getTimezoneOffset", name, args, getTimezoneOffset(hostZone, clock, name, args))

IsDST == \E name \in ZoneNames, args \in InstantArgs :
  /\ lib = "part_001"
  /\ Calls("isDST", name, args, isDST(hostZone, clock, name, args))

IsValidTimezone == \E name \in ZoneNames :
  /\ lib = "part_001"
  /\ Calls("isValidTimezone", name, <<>>, isValidTimezone(name))

NextZone ==
  \/ Tick
  \/ GetTimezoneInfo
  \/ TzOffset
  \/ Zone
  \/ GetTimezoneOffset
  \/ IsDST
  \/ IsValidTimezone

SpecZone == InitZone /\ [][NextZone]_vars

(* ------------------------------------------------------------------ *)
(*  part_001: zoned values from withZoneName and the recursive         *)
(*  generators of every(dur) and everyMonth(n) on them                 *)
(* ------------------------------------------------------------------ *)
ZonedHosts == {"UTC", "America/New_York"}

ZonedNames == {"America/New_York", "Europe/London", "Asia/Tokyo", "Not/AZone"}

ZonedDates ==
  { dateTime(2023, 1, 15, 12, 0, 0, 0), dateTime(2023, 3, 11, 12, 0, 0, 0),
    dateTime(2023, 7, 15, 14, 30, 45, 123), dateTime(2023, 10, 28, 23, 30, 0, 0) }

ZonedDurs == {everyDay, everyWeek, durations("hours", -36)}

InitZoned ==
  /\ CalIdle
  /\ ZdtIdle
  /\ origin = zdt(instant(<<0, 0>>), UTC, dateTime(1970, 1, 1, 0, 0, 0, 0))
  /\ dur \in ZonedDurs
  /\ nMonths \in {1, 6}
  /\ gens = [g \in GenIds |-> NoGen]
  /\ lib = "part_001"
  /\ hostZone \in ZonedHosts
  /\ clock = At(2023, 1, 15, 12, 0)
  /\ rd = makeReam(instant(<<0, 0>>), UTC)
  /\ heap = <<>>
  /\ tzlast = ZoneCall("init", "UTC", <<>>, clock, rd, rd)

(* origin = withZoneName(zoneName)(dt) *)
WithZoneName == \E zoneName \in ZonedNames, dt \in ZonedDates :
  /\ tzlast.op = "init"
  /\ \E out \in {withZoneName(hostZone, zoneName, dt)} :
       /\ origin' = out
       /\ tzlast' = ZoneCall("withZoneName", zoneName, <<>>, clock, rd, out)
  /\ UNCHANGED <<calVars, zdtVars, dur, nMonths, gens, heap, lib, hostZone, clock, rd>>

outermost(frames) == frames[1]

(* the argument of the innermost generateNext call *)
innermost(frames) == frames[Len(frames)]

(* every(dur)(origin) *)
InvokeRec(g) ==
  /\ tzlast.op = "withZoneName"
  /\ gens[g].pc = "none"
  /\ gens' = [gens EXCEPT ![g].pc = "rstart"]
  /\ UNCHANGED <<tzVars, calVars, zdtVars, origin, dur, nMonths>>

(* next(): the outer body delegates to generateNext(origin.instant.epochMs); *)
(* afterwards the innermost generator resumes after its yield and delegates  *)
(* to generateNext(cur + dur.ms), whose first yield is the element.          *)
PullRec(g) ==
  /\ gens[g].pc \in {"rstart", "ryield"}
  /\ gens[g].count < MaxPulls
  /\ LET frames == IF gens[g].pc = "rstart" THEN <<origin.instant.epochMs>>
                   ELSE Append(gens[g].cur, everyStep(dur, innermost(genCursor(gens, g))))
     IN  gens' = [gens EXCEPT ![g] = [pc |-> "ryield", cur |-> frames,
                                      value |-> everyYield(origin, innermost(frames)),
                                      count |-> gens[g].count + 1]]
  /\ UNCHANGED <<tzVars, calVars, zdtVars, origin, dur, nMonths>>

(* everyMonth(n)(origin) *)
InvokeMonthRec(g) ==
  /\ tzlast.op = "withZoneName"
  /\ gens[g].pc = "none"
  /\ gens' = [gens EXCEPT ![g].pc = "rmstart"]
  /\ UNCHANGED <<tzVars, calVars, zdtVars, origin, dur, nMonths>>

(* next(): as PullRec, with generateNext(origin.payload) and                 *)
(* generateNext(newDateTime)                                                 *)
PullMonthRec(g) ==
  /\ gens[g].pc \in {"rmstart", "rmyield"}
  /\ gens[g].count < MaxPulls
  /\ LET frames == IF gens[g].pc = "rmstart" THEN <<origin.payload>>
                   ELSE Append(gens[g].cur,
                               everyMonthStep(nMonths, innermost(genCursor(gens, g))))
     IN  gens' = [gens EXCEPT ![g] = [pc |-> "rmyield", cur |-> frames,
                                      value |-> everyMonthYield(origin, innermost(frames)),
                                      count |-> gens[g].count + 1]]
  /\ UNCHANGED <<tzVars, calVars, zdtVars, origin, dur, nMonths>>

NextZoned ==
  \/ WithZoneName
  \/ \E g \in GenIds : InvokeRec(g)
  \/ \E g \in GenIds : PullRec(g)
  \/ \E g \in GenIds : InvokeMonthRec(g)
  \/ \E g \in GenIds : PullMonthRec(g)

SpecZoned == InitZoned /\ [][NextZoned]_vars

(* ------------------------------------------------------------------ *)
(*  part_001: retargeting a zoned value with toZone                    *)
(* ------------------------------------------------------------------ *)
RetargetHosts == {"UTC", "America/New_York"}

RetargetNames == {"UTC", "America/New_York", "Europe/London", "Asia/Tokyo", "Not/AZone"}

RetargetDates ==
  { dateTime(2023, 1, 15, 12, 0, 0, 0), dateTime(2023, 3, 11, 18, 0, 0, 0),
    dateTime(2023, 7, 15, 14, 30, 45, 123), dateTime(2023, 10, 28, 23, 30, 0, 0),
    dateTime(2023, 11, 5, 5, 0, 0, 0) }

InitRetarget ==
  /\ CalIdle
  /\ ZdtIdle
  /\ GenIdle
  /\ lib = "part_001"
  /\ hostZone \in RetargetHosts
  /\ clock = At(2023, 1, 15, 12, 0)
  /\ rd = makeReam(instant(<<0, 0>>), UTC)
  /\ heap = <<>>
  /\ tzlast = ZoneCall("init", "UTC", <<>>, clock, rd, rd)

(* origin = withZoneName(zoneName)(dt) *)
Zoned == \E zoneName \in RetargetNames, dt \in RetargetDates :
  /\ tzlast.op = "init"
  /\ \E out \in {withZoneName(hostZone, zoneName, dt)} :
       /\ origin' = out
       /\ tzlast' = ZoneCall("withZoneName", zoneName, <<>>, clock, out, out)
  /\ UNCHANGED <<calVars, zdtVars, dur, nMonths, gens, heap, lib, hostZone, clock, rd>>

(* toZone(zoneName)(v), v being the value the last call returned: the origin, *)
(* or the origin once retargeted                                              *)
ToZone == \E zoneName \in RetargetNames :
  /\ tzlast.op = "withZoneName" \/ (tzlast.op = "toZone" /\ tzlast.in = origin)
  /\ \E out \in {toZone(hostZone, zoneName, tzlast.out)} :
       tzlast' = ZoneCall("toZone", zoneName, <<>>, clock, tzlast.out, out)
  /\ UNCHANGED <<calVars, zdtVars, genVars, heap, lib, hostZone, clock, rd>>

NextRetarget ==
  \/ Zoned
  \/ ToZone

SpecRetarget == InitRetarget /\ [][NextRetarget]_vars

(* the generator objects suspended inside the generator object gen: itself, *)
(* and with the recursive rules one per generateNext call it delegated to   *)
suspendedFrames(gen) ==
  CASE gen.pc = "none"                  -> 0
    [] gen.pc \in {"ryield", "rmyield"} -> 1 + Len(gen.cur)
    [] OTHER                            -> 1

(* ------------------------------------------------------------------ *)
(*  Recurrence: the loop generators of ream.ts and the recursive       *)
(*  generators of part_001 on one origin                               *)
(* ------------------------------------------------------------------ *)
BothOrigins ==
  { withZoneName("UTC", "America/New_York", dateTime(2023, 3, 11, 12, 0, 0, 0)),
    withZoneName("UTC", "Europe/London", dateTime(2024, 1, 31, 8, 30, 0, 0)),
    withZoneName("UTC", "Not/AZone", dateTime(2023, 10, 31, 23, 59, 59, 999)) }

InitBoth ==
  /\ CalIdle
  /\ ZdtIdle
  /\ origin \in BothOrigins
  /\ dur \in {everyDay, durations("hours", -36)}
  /\ nMonths \in {1, 13}
  /\ gens = [g \in GenIds |-> NoGen]
  /\ lib = "part_001"
  /\ hostZone = "UTC"
  /\ clock = At(2023, 1, 15, 12, 0)
  /\ rd = makeReam(instant(<<0, 0>>), UTC)
  /\ heap = <<>>
  /\ tzlast = ZoneCall("withZoneName", origin.zone.name, <<>>, clock, rd, origin)

NextBoth ==
  \/ \E g \in GenIds : Invoke(g)
  \/ \E g \in GenIds : Pull(g)
  \/ \E g \in GenIds : InvokeMonth(g)
  \/ \E g \in GenIds : PullMonth(g)
  \/ \E g \in GenIds : InvokeRec(g)
  \/ \E g \in GenIds : PullRec(g)
  \/ \E g \in GenIds : InvokeMonthRec(g)
  \/ \E g \in GenIds : PullMonthRec(g)

SpecBoth == InitBoth /\ [][NextBoth]_vars

(* ------------------------------------------------------------------ *)
(*  ReamDate: ream(input, zoneName) and its zone methods, either build *)
(* ------------------------------------------------------------------ *)
ReamHosts == {"UTC", "America/New_York"}

ReamNames ==
  {"UTC", "America/New_York", "Europe/London", "Asia/Tokyo", "Not/AZone", "constructor"}

(* '2023-07-15T14:30:00', text that is no date, a number, a PlainDateTime, nothing *)
ReamInputs ==
  { [string |-> [y |-> 2023, m |-> 7, d |-> 15, h |-> 14, min |-> 30, s |-> 0]],
    [string |-> InvalidDate],
    [number |-> At(2023, 1, 15, 12, 0).epochMs],
    [number |-> At(2023, 11, 5, 0, 0).epochMs],
    [plain  |-> dateTime(2023, 3, 12, 6, 59, 59, 999)],
    [none   |-> TRUE] }

InitReam ==
  /\ CalIdle
  /\ ZdtIdle
  /\ GenIdle
  /\ lib \in Libs
  /\ hostZone \in ReamHosts
  /\ clock \in Clocks
  /\ rd = makeReam(instant(<<0, 0>>), UTC)
  /\ heap = <<>>
  /\ tzlast = ZoneCall("init", "UTC", <<>>, clock, rd, rd)

(* rd = ream(input, zoneName); nothing is assigned when the call throws *)
Ream == \E input \in ReamInputs, zoneName \in ReamNames :
  /\ tzlast.op = "init"
  /\ \E out \in {IF lib = "ream.ts" THEN ream(hostZone, clock, input, zoneName)
                  ELSE reamIntl(hostZone, clock, input, zoneName)} :
       /\ tzlast' = ZoneCall("ream", zoneName, <<>>, clock, input, out)
       /\ rd' = IF IsThrow(out) THEN rd ELSE out
  /\ UNCHANGED <<heap, lib, hostZone, clock, otherVars>>

HasReam == tzlast.op \in {"tz", "utc"} \/ (tzlast.op = "ream" /\ ~IsThrow(tzlast.out))

(* rd = rd.tz(name) *)
Tz == \E name \in ReamNames :
  /\ HasReam
  /\ \E out \in {IF lib = "ream.ts" THEN tz(rd, name) ELSE tzIntl(hostZone, rd, name)} :
       /\ tzlast' = ZoneCall("tz", name, <<>>, clock, rd, out)
       /\ rd' = IF IsThrow(out) THEN rd ELSE out
  /\ UNCHANGED <<heap, lib, hostZone, clock, otherVars>>

(* rd = rd.utc() *)
Utc ==
  /\ HasReam
  /\ tzlast' = ZoneCall("utc", "UTC", <<>>, clock, rd, utc(rd))
  /\ rd' = utc(rd)
  /\ UNCHANGED <<heap, lib, hostZone, clock, otherVars>>

NextReam ==
  \/ Tick
  \/ Ream
  \/ Tz
  \/ Utc

SpecReam == InitReam /\ [][NextReam]_vars

(* ------------------------------------------------------------------ *)
(*  ream.ts: ReamDate objects, their methods and the plug-ins          *)
(* ------------------------------------------------------------------ *)
MaxObjects == 3

(* the host's offset and zone: UTC, or Tokyo (no summer time) *)
ObjHosts == {<<0, "UTC">>, <<540, "Asia/Tokyo">>}

(* a Saturday as text, a Sunday late in the evening as a number, a Friday   *)
(* as PlainDateTime, text that is no date, no input                         *)
ObjInputs ==
  { [string |-> [y |-> 2023, m |-> 7, d |-> 15, h |-> 14, min |-> 30, s |-> 45]],
    [string |-> InvalidDate],
    [number |-> At(2023, 7, 16, 23, 30).epochMs],
    [plain  |-> dateTime(2023, 7, 14, 9, 0, 0, 0)],
    [none   |-> TRUE] }

ObjZones == {"America/New_York", "Asia/Tokyo"}

(* the arguments (v, unit) of add and subtract *)
AddArgs ==
  { <<1, "days">>, <<-36, "hours">>, <<2, "weeks">>, <<90, "minutes">>,
    <<-1, "seconds">>, <<500, "milliseconds">> }

Plugins == {"relativePlugin", "businessPlugin"}

Ref(k) == [ref |-> k]

InitObj ==
  /\ \E h \in ObjHosts : host = h[1] /\ hostZone = h[2]
  /\ cur = dateTime(1970, 1, 1, 0, 0, 0, 0)
  /\ inst = instant(<<0, 0>>)
  /\ last = Call("init", 0, cur, cur)
  /\ steps = 0
  /\ ZdtIdle
  /\ GenIdle
  /\ lib = "ream.ts"
  /\ clock = At(2024, 1, 15, 12, 0)
  /\ rd = makeReam(instant(<<0, 0>>), UTC)
  /\ heap = <<>>
  /\ tzlast = ZoneCall("init", "UTC", <<>>, clock, rd, rd)

(* the call op(args) on the object k returned the ReamDate r, a new object,  *)
(* or threw r                                                                *)
Returns(k, op, name, args, r) ==
  /\ heap' = IF IsThrow(r) THEN heap ELSE Alloc(heap, k, ReamObject(r, op, args, k))
  /\ tzlast' = ZoneCall(op, name, args, clock, Ref(k), IF IsThrow(r) THEN r ELSE Ref(Len(heap')))
  /\ UNCHANGED <<lib, hostZone, clock, rd, otherVars>>

(* ream(input, zoneName) *)
NewReam == \E input \in ObjInputs, zoneName \in ObjZones :
  /\ heap = <<>>
  /\ \E r \in {ream(hostZone, clock, input, zoneName)} :
       Returns(0, "ream", zoneName, <<input>>, r)

(* heap[k].add(v, unit) *)
Add == \E k \in DOMAIN heap, a \in AddArgs :
  /\ Len(heap) < MaxObjects
  /\ Returns(k, "add", "", a, add(heap[k].obj, a[1], a[2]))

(* heap[k].subtract(v, unit) *)
Subtract == \E k \in DOMAIN heap, a \in AddArgs :
  /\ Len(heap) < MaxObjects
  /\ Returns(k, "subtract", "", a, subtract(heap[k].obj, a[1], a[2]))

(* heap[k].tz(name) *)
TzOf == \E k \in DOMAIN heap, name \in ObjZones :
  /\ Len(heap) < MaxObjects
  /\ Returns(k, "tz", name, <<>>, tz(heap[k].obj, name))

(* heap[k].utc() *)
UtcOf == \E k \in DOMAIN heap :
  /\ Len(heap) < MaxObjects
  /\ Returns(k, "utc", "UTC", <<>>, utc(heap[k].obj))

(* heap[k].clone() *)
Clone == \E k \in DOMAIN heap :
  /\ Len(heap) < MaxObjects
  /\ Returns(k, "clone", "", <<>>, clone(heap[k].obj))

(* extend(plugin)(heap[k]) *)
Extend == \E k \in DOMAIN heap, plugin \in Plugins :
  /\ Len(heap) < MaxObjects
  /\ heap' = Alloc(heap, k, install(plugin, heap, k))
  /\ tzlast' = ZoneCall("extend", plugin, <<plugin>>, clock, Ref(k), Ref(Len(heap')))
  /\ UNCHANGED <<lib, hostZone, clock, rd, otherVars>>

(* heap[k].nextBusinessDay(): rd is the object the method closes over; the   *)
(* result is rd itself or the new object of rd.add(1, "days")                *)
NextBusinessDay == \E k \in DOMAIN heap :
  /\ heap[k].nextBusinessDay # 0
  /\ LET b == heap[k].nextBusinessDay
     IN  IF businessWeekend(host, heap[b].obj)
         THEN /\ Len(heap) < MaxObjects
              /\ heap' = Alloc(heap, b, ReamObject(nextBusinessDay(host, heap[b].obj),
                                                   "nextBusinessDay", <<>>, k))
              /\ tzlast' = ZoneCall("nextBusinessDay", "", <<>>, clock, Ref(k), Ref(Len(heap')))
         ELSE /\ heap' = heap
              /\ tzlast' = ZoneCall("nextBusinessDay", "", <<>>, clock, Ref(k), Ref(b))
  /\ UNCHANGED <<lib, hostZone, clock, rd, otherVars>>

NextObj ==
  \/ NewReam
  \/ Add
  \/ Subtract
  \/ TzOf
  \/ UtcOf
  \/ Clone
  \/ Extend
  \/ NextBusinessDay

SpecObj == InitObj /\ [][NextObj]_vars

(* ------------------------------------------------------------------ *)
(*  The proleptic Gregorian calendar, as the properties refer to it    *)
(* ------------------------------------------------------------------ *)
Divides(k, y) == y % k = 0

LeapRule(y) == (Divides(4, y) /\ ~Divides(100, y)) \/ Divides(400, y)

DaysIn(y, m) ==
  IF m = 2 THEN (IF LeapRule(y) THEN 29 ELSE 28)
  ELSE IF m \in {4, 6, 9, 11} THEN 30 ELSE 31

ValidDate(d) == d.y # NaN /\ d.m \in 1..12 /\ d.d \in 1..DaysIn(d.y, d.m)

ValidTime(t) == t.h \in 0..23 /\ t.min \in 0..59 /\ t.s \in 0..59 /\ t.ms \in 0..999

ValidDateTime(dt) == IsDateTime(dt) /\ ValidDate(dt) /\ ValidTime(dt)

(* days from 1970-01-01 to the civil date d, no year remapped *)
CivilDay(d) == DayFromYear(d.y) + MonthStart(d.m - 1, LeapRule(d.y)) + d.d - 1

MonthIndex(d) == d.y * 12 + (d.m - 1)

SameYMD(a, b) == a.y = b.y /\ a.m = b.m /\ a.d = b.d

IsInteger(t) == ~IsNaNMs(t)

StepOps ==
  {"addYears", "addMonths", "addDays", "addHours", "addMinutes", "addSeconds",
   "addMilliseconds"}

(* C1: for every valid civil date-time dt of any year, toPlain(fromPlain(dt)) *)
(* equals dt field by field.                                                 *)
C1_RoundTripCivil ==
  (last.op = "fromPlain" /\ ValidDateTime(last.in)) => toPlain(last.out) = last.in

(* C2: for every integer instant i, toPlain(i) is a valid civil date-time and *)
(* fromPlain(toPlain(i)) is i again; no field is NaN.                         *)
C2_RoundTripInstant ==
  (last.op = "toPlain" /\ IsInteger(last.in.epochMs)) =>
     /\ ValidDateTime(last.out)
     /\ fromPlain(last.out) = last.in

(* C3: addMonths(n)(d) on a valid date d has month index index(d) + n, a     *)
(* month in 1..12 and day min(d.d, days of the result month), February       *)
(* having 29 days in leap years: the day is truncated, never rolled forward. *)
C3_AddMonths ==
  (last.op = "addMonths" /\ ValidDate(last.in)) =>
     /\ last.out.m \in 1..12
     /\ MonthIndex(last.out) = MonthIndex(last.in) + last.n
     /\ last.out.d = (IF last.in.d <= DaysIn(last.out.y, last.out.m)
                      THEN last.in.d ELSE DaysIn(last.out.y, last.out.m))

(* a negative step that crosses a year end and truncates the day, and a step *)
(* that lands on 29 February of a leap year                                  *)
C3_Witness ==
  /\ last.op = "addMonths" /\ ValidDate(last.in)
  /\ \/ last.n < 0 /\ last.out.y < last.in.y /\ last.out.d < last.in.d
     \/ last.out.m = 2 /\ last.out.d = 29 /\ last.in.d > 29

(* C4: every calendar-stepping operation applied to a valid civil date       *)
(* returns a valid civil date (month 1..12, day 1..days-in-month).           *)
C4_StepValid ==
  (last.op \in StepOps /\ ValidDate(last.in)) => ValidDate(last.out)

(* C5: isLeap(y) is true exactly when y is divisible by 4 and not by 100, or *)
(* divisible by 400, for every integer year, negative years included.        *)
C5_IsLeap ==
  last.op = "isLeap" =>
     (last.out <=> ((Divides(4, last.n) /\ ~Divides(100, last.n)) \/ Divides(400, last.n)))

(* a negative leap year and a negative century that is not one *)
C5_Witness ==
  /\ last.op = "isLeap" /\ last.n < 0
  /\ \/ last.out /\ Divides(400, last.n)
     \/ ~last.out /\ Divides(100, last.n)

(* C6: addDays(a)(d) is the date exactly a days after d; addDays(-a) undoes  *)
(* it and addDays(a) after addDays(b) is addDays(a + b), on y, m, d.         *)
C6_AddDays ==
  (last.op = "addDays" /\ ValidDate(last.in)) =>
     /\ ValidDate(last.out)
     /\ CivilDay(last.out) = CivilDay(last.in) + last.n
     /\ SameYMD(addDays(-last.n, last.out), last.in)
     /\ \A b \in DayArgs :
          SameYMD(addDays(last.n, addDays(b, last.in)), addDays(last.n + b, last.in))

(* C7: dayOfWeek(d) is in 1..7 with Monday = 1 and Sunday = 7, and the next  *)
(* day's value is (dayOfWeek(d) mod 7) + 1.                                  *)
C7_DayOfWeek ==
  (last.op = "dayOfWeek" /\ ValidDate(last.in)) =>
     /\ last.out \in 1..7
     /\ last.out = ((CivilDay(last.in) + 3) % 7) + 1
     /\ dayOfWeek(host, addDays(1, last.in)) = (last.out % 7) + 1

(* C8: startOfWeek(d, w) is d moved back by (dayOfWeek(d) - w + 7) mod 7     *)
(* days: at most 6 days before d, never after, on the requested start day    *)
(* (Sunday for w = 0 or 7), and idempotent.                                  *)
C8_StartOfWeek ==
  (last.op = "startOfWeek" /\ ValidDate(last.in)) =>
     /\ ValidDate(last.out)
     /\ CivilDay(last.out) =
          CivilDay(last.in) - ((dayOfWeek(host, last.in) - last.n + 7) % 7)
     /\ CivilDay(last.in) - CivilDay(last.out) \in 0..6
     /\ dayOfWeek(host, last.out) = (IF last.n \in {0, 7} THEN 7 ELSE last.n)
     /\ SameYMD(startOfWeek(host, last.out, last.n), last.out)

(* C9: zfmap(f)(v) has v's instant and v's zone record and payload           *)
(* f(v.payload); zfmap(id)(v) = v and zfmap(g o f)(v) = zfmap(g)(zfmap(f)(v)) *)
C9_Functor ==
  zlast.op = "zfmap" =>
     /\ zv.instant = zlast.in.instant
     /\ zv.zone = zlast.in.zone
     /\ zv.payload = zlast.f[zlast.in.payload]
     /\ (zlast.f = IdFn => zv = zlast.in)
     /\ \A g \in Fns : zfmap(Compose(g, zlast.f), zlast.in) = zfmap(g, zv)

(* a map that changes the payload of a value whose zone record is not the    *)
(* table's record for its name                                               *)
C9_Witness ==
  /\ zlast.op = "zfmap"
  /\ zv.payload # zlast.in.payload
  /\ zv.zone # zone(zv.zone.name)

(* C10: the k-th element pulled from every(dur)(origin) has instant          *)
(* origin.instant + k * dur.ms (k = 0 for the first pull) and the origin's   *)
(* zone and payload, for positive, zero and negative durations.              *)
C10_Every ==
  \A g \in GenIds :
     gens[g].count >= 1 =>
        /\ gens[g].value.instant.epochMs =
             NAdd(origin.instant.epochMs, NTimes(gens[g].count - 1, dur.ms))
        /\ gens[g].value.zone = origin.zone
        /\ gens[g].value.payload = origin.payload

(* the fourth pull of a rule with a negative duration on a non-UTC origin *)
C10_Witness ==
  \E g \in GenIds :
     /\ gens[g].count >= 4
     /\ NLess(dur.ms, <<0, 0>>)
     /\ origin.zone.name # "UTC"
     /\ gens[g].value.instant # origin.instant

(* C11: with an origin day of at most 28 and n >= 1, the k-th element of      *)
(* everyMonth(n)(origin) keeps the origin's day, hour, minute, second and     *)
(* millisecond and has month index index(origin) + k * n, month in 1..12;     *)
(* the first element's payload is the origin's payload.                       *)
C11_EveryMonth ==
  \A g \in GenIds :
     (gens[g].pc = "myield" /\ origin.payload.d <= 28 /\ nMonths >= 1) =>
        LET p == gens[g].value.payload
            o == origin.payload
        IN  /\ p.d = o.d /\ p.h = o.h /\ p.min = o.min /\ p.s = o.s /\ p.ms = o.ms
            /\ p.m \in 1..12
            /\ MonthIndex(p) = MonthIndex(o) + (gens[g].count - 1) * nMonths
            /\ (gens[g].count = 1 => p = o)

(* a third or later element, after the month wrapped into a later year, of   *)
(* an origin with a time of day                                              *)
C11_Witness ==
  \E g \in GenIds :
     /\ gens[g].pc = "myield" /\ origin.payload.d <= 28 /\ nMonths >= 1
     /\ gens[g].count >= 3
     /\ gens[g].value.payload.y > origin.payload.y
     /\ gens[g].value.payload.m < origin.payload.m
     /\ origin.payload.h # 0

(* C12: in everyMonth the instant of each element is re-derived from the     *)
(* stepped payload: an origin with instant = fromPlain(payload) yields only  *)
(* elements with instant = fromPlain(payload).                               *)
C12_InstantRederived ==
  \A g \in GenIds :
     (gens[g].pc = "myield" /\ origin.instant = fromPlain(origin.payload)) =>
        gens[g].value.instant = fromPlain(gens[g].value.payload)

RECURSIVE MonthIter(_, _, _)
MonthIter(n, p, k) == IF k = 0 THEN p ELSE everyMonthStep(n, MonthIter(n, p, k - 1))

(* the k-th element (k = 1 for the first pull) of a rule on the origin *)
ElementOf(pc, k) ==
  IF pc = "yield"
  THEN everyYield(origin, NAdd(origin.instant.epochMs, NTimes(k - 1, dur.ms)))
  ELSE everyMonthYield(origin, MonthIter(nMonths, origin.payload, k - 1))

(* C13: generators obtained from the same rule on the same origin share no   *)
(* cursor: whatever the interleaving of pulls, the k-th element of each is   *)
(* the k-th element of the rule's sequence from the origin, so two           *)
(* generators that made the same number of pulls yielded the same element.   *)
C13_Restartable ==
  \A g \in GenIds :
     gens[g].pc \in {"yield", "myield"} =>
        /\ gens[g].value = ElementOf(gens[g].pc, gens[g].count)
        /\ \A h \in GenIds :
             (gens[h].pc = gens[g].pc /\ gens[h].count = gens[g].count) =>
                gens[h].value = gens[g].value

(* two generators of one rule, one twice pulled after the other was pulled   *)
(* three times, the elements differing                                       *)
C13_Witness ==
  \E g, h \in GenIds :
     /\ g # h
     /\ gens[g].pc = gens[h].pc
     /\ gens[g].count = 2 /\ gens[h].count >= 3
     /\ gens[g].value # gens[h].value

(* ------------------------------------------------------------------ *)
(*  Zone resolution, as the properties refer to it                     *)
(* ------------------------------------------------------------------ *)
(* the instant a zone-level call resolved against *)
CallInstant == OrNow(tzlast.args, tzlast.now)

ValidInstant(i) == ~IsNaNMs(TimeClip(i.epochMs))

ResolverOps == {"getTimezoneInfo", "zone", "tzOffset", "getTimezoneOffset", "isDST"}

(* offsetMinutes and dst of the result of a resolver call *)
OffsetOf(c) == IF c.op \in {"getTimezoneInfo", "zone"} THEN c.out.offsetMinutes ELSE c.out

(* C14: the host-backed resolver never raises: for an identifier the host    *)
(* does not recognise, and any instant, getTimezoneInfo and zone return the  *)
(* record with name "UTC", offsetMinutes 0 and dst false, tzOffset and       *)
(* getTimezoneOffset return 0 and isDST returns false.                       *)
C14_FailSoft ==
  (lib = "part_001" /\ tzlast.op \in ResolverOps /\ tzlast.name \notin RecognisedZones) =>
     CASE tzlast.op \in {"getTimezoneInfo", "zone"} ->
            /\ ~IsThrow(tzlast.out)
            /\ tzlast.out.name = "UTC"
            /\ tzlast.out.offsetMinutes = 0
            /\ tzlast.out.dst = FALSE
       [] tzlast.op \in {"tzOffset", "getTimezoneOffset"} -> tzlast.out = 0
       [] OTHER -> tzlast.out = FALSE

(* getTimezoneInfo was called with an unrecognised identifier on a host      *)
(* whose zone has summer time                                                *)
C14_Witness ==
  /\ lib = "part_001" /\ tzlast.op = "getTimezoneInfo"
  /\ tzlast.name \notin RecognisedZones
  /\ hostZone # "UTC"
  /\ tzlast.out = UTCFallback

(* C15: in the table-backed build, zone(name) throws an error whose message  *)
(* contains "Unknown zone" for every name that is not a key of TZ_DB, and    *)
(* for a key of TZ_DB returns {name, offsetMinutes: base offset, dst: false}.*)
C15_ZoneTable ==
  (lib = "ream.ts" /\ tzlast.op = "zone") =>
     IF tzlast.name \in DOMAIN TZ_DB
     THEN tzlast.out = [name |-> tzlast.name,
                        offsetMinutes |-> TZ_DB[tzlast.name].baseOffset,
                        dst |-> FALSE]
     ELSE tzlast.out = Throw("Unknown zone")

(* C16: for a recognised zone and an instant i, the resolved offsetMinutes   *)
(* is the minute difference between the zone's civil reading at i and the    *)
(* UTC reading at i, positive east of UTC; tzOffset and getTimezoneOffset    *)
(* return the same number as getTimezoneInfo.                                *)
C16_Offset ==
  (/\ lib = "part_001"
   /\ tzlast.op \in {"getTimezoneInfo", "zone", "tzOffset", "getTimezoneOffset"}
   /\ tzlast.name \in RecognisedZones
   /\ ValidInstant(CallInstant)) =>
     /\ OffsetOf(tzlast) = ZoneOffset(tzlast.name, CallInstant.epochMs)
     /\ OffsetOf(tzlast) = getTimezoneInfo(hostZone, tzlast.name, CallInstant).offsetMinutes

(* 1 January and 1 July, noon, of the calendar year of the instant t *)
JanuaryNoon(t) == MakeDate(MakeDay(YearFromDay(t[1]), 0, 1), MakeTime(12, 0, 0, 0))

JulyNoon(t) == MakeDate(MakeDay(YearFromDay(t[1]), 6, 1), MakeTime(12, 0, 0, 0))

ObservesDst(z, t) ==
  ZoneOffset(z, t) > Min(ZoneOffset(z, JanuaryNoon(t)), ZoneOffset(z, JulyNoon(t)))

DstOf(c) == IF c.op = "isDST" THEN c.out ELSE c.out.dst

(* C17: for a recognised zone and an instant i, the resolved dst flag is     *)
(* true exactly when the zone's offset at i is greater than the smaller of   *)
(* its offsets at 1 January noon and 1 July noon of i's year: true in        *)
(* summer time of either hemisphere, false for a zone of constant offset.    *)
C17_Dst ==
  (/\ lib = "part_001"
   /\ tzlast.op \in {"getTimezoneInfo", "zone", "isDST"}
   /\ tzlast.name \in RecognisedZones
   /\ ValidInstant(CallInstant)) =>
     DstOf(tzlast) = ObservesDst(tzlast.name, CallInstant.epochMs)

(* the zone record of v is the one its name resolves to at v's instant *)
ZoneResolved(v) == v.zone = getTimezoneInfo(hostZone, v.zone.name, v.instant)

(* C18: a zoned value produced without retargeting carries the zone record   *)
(* resolved against its own instant: the value of withZoneName(zone)(dt),    *)
(* and every element of every(dur) and everyMonth(n) on such an origin,      *)
(* also when the sequence crosses a summer-time transition.                  *)
C18_ZoneAtInstant ==
  tzlast.op = "withZoneName" =>
     /\ ZoneResolved(origin)
     /\ \A g \in GenIds : gens[g].count >= 1 => ZoneResolved(gens[g].value)

(* C19: the ReamDate of ream(input, zoneName) reports, through timezone(),   *)
(* isDST() and offset(), the named zone as resolved at the instant the input *)
(* gives, whatever the time of the call.                                     *)
C19_ZoneAtInput ==
  (lib = "part_001" /\ tzlast.op = "ream") =>
     LET atInput == getTimezoneInfo(hostZone, tzlast.name, tzlast.out.instant)
     IN  /\ timezone(tzlast.out).name = atInput.name
         /\ reamIsDST(tzlast.out) = atInput.dst
         /\ reamOffset(tzlast.out) = atInput.offsetMinutes

(* the zone record of name at the instant i, as the build in use resolves it *)
ResolvedFor(name, i) ==
  IF lib = "ream.ts" THEN zone(name) ELSE getTimezoneInfo(hostZone, name, i)

C21_ToZone ==
  tzlast.op = "toZone" =>
     LET v == tzlast.in
         r == tzlast.out
     IN  /\ r.zone = getTimezoneInfo(hostZone, tzlast.name, v.instant)
         /\ r.payload = v.payload
         /\ r.instant.epochMs =
              NAdd(v.instant.epochMs,
                   NTimes(r.zone.offsetMinutes - v.zone.offsetMinutes, NOfInt(60000)))

(* a New York value was retargeted to Tokyo: the instant moved forward *)
C21_Witness ==
  /\ tzlast.op = "toZone"
  /\ tzlast.in.zone.name = "America/New_York"
  /\ tzlast.out.zone.name = "Asia/Tokyo"
  /\ NLess(tzlast.in.instant.epochMs, tzlast.out.instant.epochMs)

(* ------------------------------------------------------------------ *)
(*  ReamDate objects, as the properties refer to them                  *)
(* ------------------------------------------------------------------ *)
(* what valueOf() and the getters of a ReamDate return *)
Readings(r) ==
  <<valueOf(r), reamYear(r), reamMonth(r), reamDate(r), reamDay(host, r), reamHour(r),
    reamMinute(r), reamSecond(r), reamMillisecond(r)>>

(* C22: a call of add, subtract, tz, utc, clone, extend(plugin) or of a      *)
(* plug-in's method leaves every object that exists with the readings of     *)
(* valueOf() and of its getters it had before the call, and the object that  *)
(* add, subtract, tz, utc or clone returns is not the receiver.              *)
C22_Immutable ==
  [][ /\ \A k \in DOMAIN heap :
           /\ k \in DOMAIN heap'
           /\ \/ heap'[k].obj = heap[k].obj    \* same instant and zone: same readings
              \/ Readings(heap'[k].obj) = Readings(heap[k].obj)
      /\ (tzlast'.op \in {"add", "subtract", "tz", "utc", "clone"}
            /\ ~IsThrow(tzlast'.out)) => tzlast'.out # tzlast'.in ]_vars

(* an object was given a day more, the receiver (still a Saturday) being an  *)
(* object that was itself derived from the first                             *)
C22_Witness ==
  /\ tzlast.op = "add" /\ tzlast.args = <<1, "days">>
  /\ tzlast.in.ref > 1
  /\ reamDay(host, heap[tzlast.in.ref].obj) = 6
  /\ reamDay(host, heap[tzlast.out.ref].obj) = 7

(* the day of the week, 1 (Monday) .. 7 (Sunday), of the UTC date of r *)
Weekday(r) ==
  LET w == WeekDay(valueOf(r)[1]) IN IF w = 0 THEN 7 ELSE w

(* C23: nextBusinessDay() of a ReamDate extended with businessPlugin returns *)
(* a date that is no Saturday and no Sunday: the receiver's own date when    *)
(* that is a Monday..Friday, the Monday that follows when it is a Saturday   *)
(* or a Sunday.                                                              *)
C23_NextBusinessDay ==
  tzlast.op = "nextBusinessDay" =>
     LET before == heap[tzlast.in.ref].obj
         after  == heap[tzlast.out.ref].obj
         days   == valueOf(after)[1] - valueOf(before)[1]
     IN  /\ Weekday(after) \in 1..5
         /\ Weekday(before) \in 1..5 => valueOf(after) = valueOf(before)
         /\ Weekday(before) = 6 => days = 2
         /\ Weekday(before) = 7 => days = 1

(* milliseconds per unit *)
MsPer(u) ==
  CASE u = "milliseconds" -> NOfInt(1)
    [] u = "seconds"      -> NOfInt(1000)
    [] u = "minutes"      -> NOfInt(60000)
    [] u = "hours"        -> NOfInt(3600000)
    [] u = "days"         -> NOfInt(86400000)
    [] u = "weeks"        -> NOfInt(604800000)

(* C27: the object of rd.add(v, u) has valueOf() = rd.valueOf() + v * (ms    *)
(* per u); the object of rd.subtract(v, u) has the valueOf() of rd.add(-v,   *)
(* u); the object of rd.add(v, u).subtract(v, u) has rd's valueOf(); both    *)
(* carry rd's zone record.                                                   *)
C27_AddSubtract ==
  \A n \in DOMAIN heap :
     LET o    == heap[n]
         m    == o.made
         from == heap[m.from]
     IN  /\ m.op = "add" =>
              /\ valueOf(o.obj) = NAdd(valueOf(from.obj), NTimes(m.args[1], MsPer(m.args[2])))
              /\ timezone(o.obj) = timezone(from.obj)
         /\ m.op = "subtract" =>
              /\ valueOf(o.obj) = NSub(valueOf(from.obj), NTimes(m.args[1], MsPer(m.args[2])))
              /\ valueOf(o.obj) = valueOf(add(from.obj, -m.args[1], m.args[2]))
              /\ timezone(o.obj) = timezone(from.obj)
         /\ (m.op = "subtract" /\ from.made.op = "add" /\ from.made.args = m.args) =>
              valueOf(o.obj) = valueOf(heap[from.made.from].obj)

(* rd.add(-36, "hours").subtract(-36, "hours") on a ReamDate of New York     *)
C27_Witness ==
  \E n \in DOMAIN heap :
     /\ heap[n].made.op = "subtract" /\ heap[n].made.args = <<-36, "hours">>
     /\ heap[heap[n].made.from].made = [op |-> "add", args |-> <<-36, "hours">>, from |-> 1]
     /\ heap[n].obj.timeZone.name = "America/New_York"
     /\ valueOf(heap[n].obj) = valueOf(heap[1].obj)
     /\ valueOf(heap[n].obj) # valueOf(heap[heap[n].made.from].obj)

(* ------------------------------------------------------------------ *)
(*  Recurrence sequences, as the properties refer to them (continued)  *)
(* ------------------------------------------------------------------ *)
(* C24: with the generators of ream.ts, every pull leaves the generator with *)
(* one suspended frame and one cursor, the instant or the payload of the     *)
(* element just yielded, and that cursor is the step applied to the cursor   *)
(* the generator held before the pull.                                       *)
C24_ConstantState ==
  [][ \A g \in GenIds :
        (gens'[g] # gens[g] /\ gens'[g].count >= 1) =>
           /\ suspendedFrames(gens'[g]) = 1
           /\ gens'[g].pc = "yield" =>
                /\ gens'[g].cur = gens'[g].value.instant.epochMs
                /\ gens[g].count >= 1 => gens'[g].cur = NAdd(gens[g].cur, dur.ms)
           /\ gens'[g].pc = "myield" =>
                /\ gens'[g].cur = gens'[g].value.payload
                /\ gens[g].count >= 1 =>
                     LET nd == addMonths(nMonths, gens[g].cur)
                     IN  gens'[g].cur = [gens[g].cur EXCEPT !.y = nd.y, !.m = nd.m, !.d = nd.d] ]_vars

(* a generator of every(dur), dur not zero, was pulled for the last time the *)
(* bound allows                                                              *)
C24_Witness ==
  \E g \in GenIds :
     /\ gens[g].pc = "yield" /\ gens[g].count = MaxPulls
     /\ suspendedFrames(gens[g]) = 1
     /\ gens[g].cur # origin.instant.epochMs

C26_Lazy ==
  \A g \in GenIds :
     /\ gens[g].pc \in {"none", "start", "yield", "mstart", "myield"}
     /\ (gens[g].pc # "none" /\ gens[g].count < MaxPulls) =>
           ENABLED (Pull(g) \/ PullMonth(g))
     /\ gens[g].pc \in {"none", "start", "mstart"} =>
           gens[g].count = 0 /\ gens[g].cur = undefined /\ gens[g].value = undefined
     /\ gens[g].pc \in {"yield", "myield"} =>
           /\ gens[g].count >= 1
           /\ gens[g].value = ElementOf(gens[g].pc, gens[g].count)
     /\ gens[g].pc = "yield" =>
           gens[g].cur = NAdd(origin.instant.epochMs, NTimes(gens[g].count - 1, dur.ms))
     /\ gens[g].pc = "myield" =>
           gens[g].cur = MonthIter(nMonths, origin.payload, gens[g].count - 1)

(* one generator was pulled as often as the bound allows while another,      *)
(* invoked on the same origin, was never pulled                              *)
C26_Witness ==
  \E g, h \in GenIds :
     /\ gens[g].pc = "yield" /\ gens[g].count = MaxPulls
     /\ gens[h].pc = "start" /\ gens[h].cur = undefined

(* C28: in a sequence of everyMonth(n) the day of each element is the day of *)
(* the element before it, clamped to the length of the new month: it never   *)
(* increases and never exceeds the origin's day, also after a short month;   *)
(* hour, minute, second and millisecond are the origin's.                    *)
C28_DayNeverIncreases ==
  [][ \A g \in GenIds :
        (gens'[g] # gens[g] /\ gens'[g].pc = "myield") =>
           LET p == gens'[g].value.payload
               o == origin.payload
           IN  /\ p.d <= o.d
               /\ p.h = o.h /\ p.min = o.min /\ p.s = o.s /\ p.ms = o.ms
               /\ gens[g].pc = "myield" =>
                    /\ p.d <= gens[g].value.payload.d
                    /\ p.d = Min(gens[g].value.payload.d, DaysIn(p.y, p.m)) ]_vars

(* after 31 January and 29 February, the element of a month of 31 days       *)
C28_Witness ==
  \E g \in GenIds :
     /\ gens[g].pc = "myield" /\ gens[g].count >= 3
     /\ origin.payload.d = 31
     /\ gens[g].value.payload.d = 29
     /\ DaysIn(gens[g].value.payload.y, gens[g].value.payload.m) = 31

(* C29: a value v whose zone record was resolved for zone A at v.instant is  *)
(* given back by toZone(A) after toZone(B), whatever B: toZone(A)(toZone(B)  *)
(* (v)) has v's instant and v's zone record.  (origin is v; the last call is *)
(* toZone with a name that resolves to v's zone record at v.instant, made on *)
(* v retargeted once, or on v itself when toZone(B)(v) is v.)                *)
C29_RetargetReversible ==
  (/\ tzlast.op = "toZone"
   /\ getTimezoneInfo(hostZone, tzlast.name, origin.instant) = origin.zone) =>
     /\ tzlast.out.instant = origin.instant
     /\ tzlast.out.zone = origin.zone

(* C30: isValidTimezone(id) is true exactly when getTimezoneInfo(id, i)      *)
(* returns a record named id, and false exactly when it returns the UTC      *)
(* fallback for an id that is not "UTC", for every identifier id and every   *)
(* instant i; isValidTimezone returns a boolean, the same at every time of   *)
(* the call.                                                                 *)
C30_ValidAgrees ==
  /\ (lib = "part_001" /\ tzlast.op = "getTimezoneInfo") =>
        /\ isValidTimezone(tzlast.name) <=> tzlast.out.name = tzlast.name
        /\ (tzlast.name # "UTC" /\ ~isValidTimezone(tzlast.name)) => tzlast.out = UTCFallback
  /\ (lib = "part_001" /\ tzlast.op = "isValidTimezone") =>
        /\ tzlast.out \in BOOLEAN
        /\ \A i \in TzInstants :
             tzlast.out <=> getTimezoneInfo(hostZone, tzlast.name, i).name = tzlast.name

=============================================================================
